---- MODULE Spec2Model ----
(***************************************************************************)
(* A model of the fabparse parser-combinator library.                      *)
(*                                                                         *)
(* The only mutable state a parse touches is the cursor, a borrowed slice  *)
(* (pointer, length) into the user's input.  A parser value is a tree; one *)
(* call of Parser::fab on the cursor is one step of the machine.  The      *)
(* combinators are translated from their fab bodies, statement by          *)
(* statement, as operators that return the call's result together with the *)
(* cursor the call leaves behind.                                          *)
(***************************************************************************)
EXTENDS Integers, Sequences, FiniteSets, TLC

VARIABLES
    input,      \* the user's input: a sequence of items (chars or elements)
    seqkind,    \* "str" (UTF-8 text) or "slice" (array of elements)
    etype,      \* the error type E the parsers are instantiated with
    cursor,     \* the user's `&mut &'a I`: [ptr, len]
    pc,         \* "ready": a call can be made; "done": a call has returned;
                \* "printed" / "panicked": the error's trace was printed / aborted
    last,       \* the call that has just returned: parser, entry cursor, result
    trace_call, \* the arguments of the last print_trace call: <<input, window>>
    stdout      \* the lines the last print_trace call printed

vars == <<input, seqkind, etype, cursor, pc, last, trace_call, stdout>>

-----------------------------------------------------------------------------
(* Bounds of the model *)

MaxLen == 3          \* longest input, in items
MaxTake == 2         \* largest n of take(n)
UsizeBits == 16      \* width the model gives usize

(* Program constants *)

InputBase == 64      \* address of the input's first byte
ElemSize == 4        \* size_of::<T>() of the array instance (i32 in the tests)

Items == {"a", "1", "L"}     \* 'a', '1' and a two-byte scalar

UsizeMax == 2^UsizeBits - 1

len_utf8(ch) == IF ch = "L" THEN 2 ELSE 1

CodePoint(ch) == CASE ch = "1" -> 49 [] ch = "a" -> 97 [] OTHER -> 955

is_ascii_digit(ch) == ch = "1"

-----------------------------------------------------------------------------
(* The input sequence behind a cursor *)

\* bytes one item occupies in memory
Width(x) == IF seqkind = "str" THEN len_utf8(x) ELSE ElemSize

\* what one item adds to len(): bytes for text, one for arrays
Unit(x) == IF seqkind = "str" THEN len_utf8(x) ELSE 1

RECURSIVE SumWidth(_)
SumWidth(i) == IF i = 0 THEN 0 ELSE SumWidth(i - 1) + Width(input[i])

RECURSIVE SumUnit(_, _)
SumUnit(i, j) == IF j <= i THEN 0 ELSE SumUnit(i, j - 1) + Unit(input[j])

\* address of the first byte after item i
AddrOf(i) == InputBase + SumWidth(i)

\* number of items of the input that lie before address a
IndexOf(a) == CHOOSE i \in 0..Len(input) : AddrOf(i) = a

WholeInput == [ptr |-> InputBase, len |-> SumUnit(0, Len(input))]

\* the items a cursor can see
View(cur) ==
    LET i == IndexOf(cur.ptr)
        j == CHOOSE k \in i..Len(input) : SumUnit(i, k) = cur.len
    IN  SubSeq(input, i + 1, j)

\* the cursor after its first k items: `&input[k..]`, `split_at(k).1`
Advance(cur, k) ==
    LET i == IndexOf(cur.ptr)
    IN  [ptr |-> AddrOf(i + k), len |-> cur.len - SumUnit(i, i + k)]

\* `seq as *const I as *const u8 as usize`
loc(cur) == cur.ptr

\* Sequence::len
SeqLen(cur) == cur.len

\* Sequence::try_split_front
TrySplitFront(cur) ==
    IF View(cur) = <<>>
    THEN [some |-> FALSE, first |-> "", rest |-> cur]
    ELSE [some |-> TRUE, first |-> Head(View(cur)), rest |-> Advance(cur, 1)]

\* Sequence::try_split_at: n is in len() units; None when out of range or,
\* for text, when n is not a scalar boundary
TrySplitAt(cur, n) ==
    LET i == IndexOf(cur.ptr)
        ok == /\ n >= 0
              /\ n <= cur.len
              /\ \E k \in i..Len(input) : SumUnit(i, k) = n
        k0 == CHOOSE k \in i..Len(input) : SumUnit(i, k) = n
    IN  IF ok
        THEN [some |-> TRUE,
              rest |-> [ptr |-> AddrOf(k0), len |-> cur.len - n],
              front |-> [ptr |-> cur.ptr, len |-> n]]
        ELSE [some |-> FALSE, rest |-> cur, front |-> cur]

-----------------------------------------------------------------------------
(* Output values *)

OChar(x)      == [k |-> "item", v |-> x]
OSlice(s)     == [k |-> "slice", v |-> s]
OTuple(os)    == [k |-> "tuple", v |-> os]
OSome(o)      == [k |-> "some", v |-> o]
ONone         == [k |-> "none", v |-> <<>>]
OInt(n)       == [k |-> "int", v |-> n]
OMapped(f, o) == [k |-> "mapped", v |-> <<f, o>>]
OVec(os)      == [k |-> "vec", v |-> os]
OUnit         == [k |-> "unit", v |-> <<>>]

-----------------------------------------------------------------------------
(* Errors: error.rs *)

NoCause == "none"

\* the payload-free error
NoContextFabError == [stack |-> <<>>, cause |-> NoCause]

LocatedError(cur, parser_type) == [parser_type |-> parser_type, location |-> loc(cur)]

\* ParserError::from_parser_error
from_parser_error(cur, parser_type) ==
    IF etype = "NoContextFabError"
    THEN NoContextFabError
    ELSE [stack |-> <<LocatedError(cur, parser_type)>>, cause |-> NoCause]

\* ParserError::from_external_error.  The third error type is a user's
\* implementation of the trait that keeps the external cause instead of a
\* location and leaves add_context and get_loc of such an error at the
\* trait's defaults.
from_external_error(cur, parser_type, cause) ==
    CASE etype = "NoContextFabError" -> NoContextFabError
      [] etype = "FabError" ->
            [stack |-> <<LocatedError(cur, parser_type)>>, cause |-> cause]
      [] OTHER -> [stack |-> <<>>, cause |-> cause]

\* add_context that puts the new frame before the others
add_context_Prepend(err, cur, parser_type) ==
    IF etype = "FabError"
    THEN [err EXCEPT !.stack = <<LocatedError(cur, parser_type)>> \o @]
    ELSE err

\* ParserError::add_context
add_context(err, cur, parser_type) ==
    IF etype = "FabError"
    THEN [err EXCEPT !.stack = Append(@, LocatedError(cur, parser_type))]
    ELSE err

\* ParserError::get_loc, as an Option
get_loc(err) ==
    CASE etype = "NoContextFabError" -> [some |-> FALSE, val |-> 0]
      [] etype = "FabError" -> [some |-> TRUE, val |-> err.stack[1].location]
      [] OTHER -> IF err.stack = <<>>
                  THEN [some |-> FALSE, val |-> 0]
                  ELSE [some |-> TRUE, val |-> err.stack[1].location]

NoErr == [stack |-> <<>>, cause |-> "ok"]

-----------------------------------------------------------------------------
(* Results of a call of fab: Ok(out) or Err(err), the cursor it leaves, the  *)
(* calls it made of its direct children, and the number of times it called  *)
(* its user function (the map function or the reducer).                     *)

Ok(out, cur, calls, fcalls) ==
    [cur |-> cur, ok |-> TRUE, err |-> NoErr, out |-> out, calls |-> calls, fcalls |-> fcalls]

Err(err, cur, calls, fcalls) ==
    [cur |-> cur, ok |-> FALSE, err |-> err, out |-> OUnit, calls |-> calls, fcalls |-> fcalls]

Call(i, at) == [i |-> i, at |-> at]

-----------------------------------------------------------------------------
(* Parser values.  t is the parser's type; kids its child parsers; n, m, x  *)
(* and f its numbers, its item and its user function.                       *)

\* (Every record of this module lists its fields in the order TLC normalises
\* them to, so that a value shared by two workers is never reordered in place.)
Mk(t, kids, n, m, x, f) == [x |-> x, n |-> n, f |-> f, t |-> t, kids |-> kids, m |-> m]

Item(x)            == Mk("Item", <<>>, 0, 0, x, "")
FnBool(f)          == Mk("FnBool", <<>>, 0, 0, "", f)
FnOption(f)        == Mk("FnOption", <<>>, 0, 0, "", f)
FnResult(f)        == Mk("FnResult", <<>>, 0, 0, "", f)
CharRange(lo, hi)  == Mk("Range", <<>>, CodePoint(lo), CodePoint(hi), "", "")
take(n)            == Mk("Take", <<>>, n, 0, "", "")
Function(n, x)     == Mk("Function", <<>>, n, 0, x, "")
Custom(n, x)       == Mk("Custom", <<>>, n, 0, x, "")
fab_map(p, f)      == Mk("Map", <<p>>, 0, 0, "", f)
fab_value(p, v)    == Mk("Value", <<p>>, v, 0, "", "")
fab_try_map_option(p, f) == Mk("TryMapOption", <<p>>, 0, 0, "", f)
fab_try_map_result(p, f) == Mk("TryMapResult", <<p>>, 0, 0, "", f)
opt(p)             == Mk("Opt", <<p>>, 0, 0, "", "")
take_not(p)        == Mk("TakeNot", <<p>>, 0, 0, "", "")
Tuple(ps)          == Mk("Tuple", ps, 0, 0, "", "")
alt(ps)            == Mk("Alt", ps, 0, 0, "", "")
permutation(ps)    == Mk("Permutation", ps, 0, 0, "", "")
\* Repeat::new with bounds lo..hi and a reducer
Repeat(p, lo, hi, f) == Mk("Repeat", <<p>>, lo, hi, "", f)
\* fab_repeat with one repetition required
fab_repeat_Min1(p) == Repeat(p, 1, UsizeMax, "vec")
\* Parser::fab_repeat: the default bounds and the Vec reducer
fab_repeat(p)      == Repeat(p, 0, UsizeMax, "vec")
\* Repeat::min, Repeat::max, Repeat::as_input_slice, Repeat::reduce
min(r, lo)         == Repeat(r.kids[1], lo, r.m, r.f)
max(r, hi)         == Repeat(r.kids[1], r.n, hi, r.f)
as_input_slice(r)  == Repeat(r.kids[1], r.n, r.m, "slice")
reduce(r, f)       == Repeat(r.kids[1], r.n, r.m, f)

\* bound with an inclusive upper bound that is always incremented
bound_WrapUpper(r, b) ==
    LET lower == CASE b[1] = "Included" -> b[2]
                   [] b[1] = "Excluded" -> (b[2] + 1) % 2^UsizeBits
                   [] OTHER -> 0
        upper == CASE b[3] = "Included" -> (b[4] + 1) % 2^UsizeBits
                   [] b[3] = "Excluded" -> b[4]
                   [] OTHER -> UsizeMax
    IN  IF b[1] = "Excluded" /\ b[2] = UsizeMax
        THEN Mk("panic", <<>>, 0, 0, "", "")
        ELSE Repeat(r.kids[1], lower, upper, r.f)

\* Repeat::bound on the range b = <<kind of the start bound, its value, kind
\* of the end bound, its value>>, in usize arithmetic; the parser "panic"
\* stands for the panic! of the builder
bound(r, b) ==
    LET lower == CASE b[1] = "Included" -> b[2]
                   [] b[1] = "Excluded" -> (b[2] + 1) % 2^UsizeBits
                   [] OTHER -> 0
        upper == CASE b[3] = "Included" ->
                        IF b[4] = UsizeMax THEN b[4] ELSE (b[4] + 1) % 2^UsizeBits
                   [] b[3] = "Excluded" -> b[4]
                   [] OTHER -> UsizeMax
    IN  IF b[1] = "Excluded" /\ b[2] = UsizeMax
        THEN Mk("panic", <<>>, 0, 0, "", "")
        ELSE Repeat(r.kids[1], lower, upper, r.f)

-----------------------------------------------------------------------------
(* User functions handed to the library *)

\* the predicates of the FnBool tags
BoolFn(f, x) == IF f = "is_ascii_digit" THEN is_ascii_digit(x) ELSE x = "a"

\* the item functions of the FnOption and FnResult tags, and the output
\* functions of try_map: char::to_digit and functions that ignore their argument
TryFn(f, o) ==
    CASE f = "to_digit" ->
            IF o.k = "item" /\ is_ascii_digit(o.v)
            THEN [ok |-> TRUE, cause |-> NoCause, out |-> OInt(1)]
            ELSE [ok |-> FALSE, cause |-> "ParseIntError", out |-> OUnit]
      [] f = "reject" -> [ok |-> FALSE, cause |-> "TestError", out |-> OUnit]
      [] OTHER -> [ok |-> TRUE, cause |-> NoCause, out |-> OInt(5)]

\* the function of map
MapFn(f, o) == OMapped(f, o)

-----------------------------------------------------------------------------
(* Primitives: tag.rs *)

\* `char` on str and `T` on [T]
ItemParser(p, cur) ==
    IF View(cur) # <<>> /\ Head(View(cur)) = p.x
    THEN Ok(OChar(p.x), Advance(cur, 1), <<>>, 0)
    ELSE Err(from_parser_error(cur, "Tag"), cur, <<>>, 0)

\* Fn(Item) -> bool
FnBoolParser(p, cur) ==
    IF View(cur) = <<>>
    THEN Err(from_parser_error(cur, "Tag"), cur, <<>>, 0)
    ELSE IF BoolFn(p.f, Head(View(cur)))
         THEN Ok(OChar(Head(View(cur))), Advance(cur, 1), <<>>, 1)
         ELSE Err(from_parser_error(cur, "Tag"), cur, <<>>, 1)

\* Fn(Item) -> Option<V>
FnOptionParser(p, cur) ==
    IF View(cur) = <<>>
    THEN Err(from_parser_error(cur, "Tag"), cur, <<>>, 0)
    ELSE LET r == TryFn(p.f, OChar(Head(View(cur))))
         IN  IF r.ok
             THEN Ok(r.out, Advance(cur, 1), <<>>, 1)
             ELSE Err(from_parser_error(cur, "Tag"), cur, <<>>, 1)

\* Fn(Item) -> Result<V, FErr>
FnResultParser(p, cur) ==
    IF View(cur) = <<>>
    THEN Err(from_parser_error(cur, "Tag"), cur, <<>>, 0)
    ELSE LET r == TryFn(p.f, OChar(Head(View(cur))))
         IN  IF r.ok
             THEN Ok(r.out, Advance(cur, 1), <<>>, 1)
             ELSE Err(from_external_error(cur, "Tag", r.cause), cur, <<>>, 1)

\* Range<char> on str, RangeBounds<T> on [T]
RangeParser(p, cur) ==
    IF View(cur) = <<>>
    THEN Err(from_parser_error(cur, "Tag"), cur, <<>>, 0)
    ELSE LET c == Head(View(cur))
         IN  IF p.n <= CodePoint(c) /\ CodePoint(c) < p.m
             THEN Ok(OChar(c), Advance(cur, 1), <<>>, 0)
             ELSE Err(from_parser_error(cur, "Tag"), cur, <<>>, 0)

\* Take on str: walk n chars adding up their byte lengths, then split_at(pos)
RECURSIVE TakeStrPos(_, _, _)
TakeStrPos(chars, n, pos) ==
    IF n = 0 THEN pos
    ELSE IF chars = <<>> THEN -1
    ELSE TakeStrPos(Tail(chars), n - 1, pos + len_utf8(Head(chars)))

\* TakeStr with the remaining length shortened by the number of chars taken,
\* not by the number of bytes
TakeStr_LenInChars(p, cur) ==
    LET pos == TakeStrPos(View(cur), p.n, 0)
    IN  IF pos < 0
        THEN Err(from_parser_error(cur, "Tag"), cur, <<>>, 0)
        ELSE Ok(OSlice(SubSeq(View(cur), 1, p.n)),
                [ptr |-> cur.ptr + pos, len |-> cur.len - p.n], <<>>, 0)

TakeStr(p, cur) ==
    LET pos == TakeStrPos(View(cur), p.n, 0)
    IN  IF pos < 0
        THEN Err(from_parser_error(cur, "Tag"), cur, <<>>, 0)
        ELSE Ok(OSlice(SubSeq(View(cur), 1, p.n)),
                [ptr |-> cur.ptr + pos, len |-> cur.len - pos], <<>>, 0)

\* Take on [T] that wants one element more than it takes
TakeSlice_OneMore(p, cur) ==
    IF cur.len <= p.n
    THEN Err(from_parser_error(cur, "Tag"), cur, <<>>, 0)
    ELSE Ok(OSlice(SubSeq(View(cur), 1, p.n)),
            [ptr |-> cur.ptr + p.n * ElemSize, len |-> cur.len - p.n], <<>>, 0)

\* Take on [T]
TakeSlice(p, cur) ==
    IF cur.len < p.n
    THEN Err(from_parser_error(cur, "Tag"), cur, <<>>, 0)
    ELSE Ok(OSlice(SubSeq(View(cur), 1, p.n)),
            [ptr |-> cur.ptr + p.n * ElemSize, len |-> cur.len - p.n], <<>>, 0)

TakeParser(p, cur) == IF seqkind = "str" THEN TakeStr(p, cur) ELSE TakeSlice(p, cur)

\* A parser the user wrote: it takes p.n items off the front, then wants the
\* item p.x.  When it fails it returns where it stands: on the cursor it has
\* already advanced.
RECURSIVE UserParser(_, _, _)
UserParser(p, cur, skipped) ==
    LET sf == TrySplitFront(cur)
    IN  IF ~sf.some
        THEN Err(from_parser_error(cur, "Function"), cur, <<>>, 0)
        ELSE IF skipped < p.n
             THEN UserParser(p, sf.rest, skipped + 1)
             ELSE IF sf.first = p.x
                  THEN Ok(OChar(sf.first), sf.rest, <<>>, 0)
                  ELSE Err(from_parser_error(cur, "Function"), cur, <<>>, 0)

\* ParserFunction without its checkpoint
ParserFunction_NoCheckpoint(p, cur) == UserParser(p, cur, 0)

\* ParserFunction that goes back to its checkpoint on success as well
ParserFunction_AlwaysReset(p, cur) ==
    LET checkpoint == cur
        r == UserParser(p, cur, 0)
    IN  [r EXCEPT !.cur = checkpoint]

\* ParserFunction: a user function as a parser
ParserFunction(p, cur) ==
    LET checkpoint == cur
        r == UserParser(p, cur, 0)
    IN  IF r.ok THEN r ELSE [r EXCEPT !.cur = checkpoint]

-----------------------------------------------------------------------------
(* Combinators: combinator.rs, branch.rs, repeat.rs *)

RECURSIVE fab(_, _)
RECURSIVE sequence_impl(_, _, _, _, _, _)
RECURSIVE alt_impl(_, _, _, _, _, _, _)
RECURSIVE permutation_scan(_, _, _, _, _, _, _, _, _)
RECURSIVE repeat_loop(_, _, _, _, _, _, _, _)

\* ParserMap::fab returning the child's error as it is
ParserMap_NoContext(p, cur) ==
    LET r == fab(p.kids[1], cur)
    IN  IF r.ok
        THEN Ok(MapFn(p.f, r.out), r.cur, <<Call(1, cur)>>, 1)
        ELSE Err(r.err, r.cur, <<Call(1, cur)>>, 0)

\* ParserMap::fab
ParserMap(p, cur) ==
    LET r == fab(p.kids[1], cur)
    IN  IF r.ok
        THEN Ok(MapFn(p.f, r.out), r.cur, <<Call(1, cur)>>, 1)
        ELSE Err(add_context(r.err, r.cur, "Map"), r.cur, <<Call(1, cur)>>, 0)

\* ParserTryMap::fab for F: Fn(M) -> Option<O>
ParserTryMapOption(p, cur) ==
    LET checkpoint == cur
        r == fab(p.kids[1], cur)
        func_result == TryFn(p.f, r.out)
    IN  IF r.ok
        THEN IF func_result.ok
             THEN Ok(func_result.out, r.cur, <<Call(1, cur)>>, 1)
             ELSE Err(from_parser_error(checkpoint, "TryMap"), checkpoint,
                      <<Call(1, cur)>>, 1)
        ELSE Err(add_context(r.err, checkpoint, "Map"), r.cur, <<Call(1, cur)>>, 0)

\* ParserTryMap::fab (Result) without `*input = checkpoint`
ParserTryMapResult_NoReset(p, cur) ==
    LET checkpoint == cur
        r == fab(p.kids[1], cur)
        func_result == TryFn(p.f, r.out)
    IN  IF r.ok
        THEN IF func_result.ok
             THEN Ok(func_result.out, r.cur, <<Call(1, cur)>>, 1)
             ELSE Err(from_external_error(r.cur, "TryMap", func_result.cause),
                      r.cur, <<Call(1, cur)>>, 1)
        ELSE Err(add_context(r.err, checkpoint, "Map"), r.cur, <<Call(1, cur)>>, 0)

\* ParserTryMap::fab for F: Fn(M) -> Result<O, FErr>
ParserTryMapResult(p, cur) ==
    LET checkpoint == cur
        r == fab(p.kids[1], cur)
        func_result == TryFn(p.f, r.out)
    IN  IF r.ok
        THEN IF func_result.ok
             THEN Ok(func_result.out, r.cur, <<Call(1, cur)>>, 1)
             ELSE Err(from_external_error(checkpoint, "TryMap", func_result.cause),
                      checkpoint, <<Call(1, cur)>>, 1)
        ELSE Err(add_context(r.err, checkpoint, "Map"), r.cur, <<Call(1, cur)>>, 0)

\* Opt::fab
Opt(p, cur) ==
    LET r == fab(p.kids[1], cur)
    IN  IF r.ok
        THEN Ok(OSome(r.out), r.cur, <<Call(1, cur)>>, 0)
        ELSE Ok(ONone, r.cur, <<Call(1, cur)>>, 0)

\* TakeNot::fab taking the item where the child left the cursor
TakeNot_NoCheckpoint(p, cur) ==
    LET r == fab(p.kids[1], cur)
        sf == TrySplitFront(r.cur)
    IN  IF r.ok
        THEN Err(from_parser_error(cur, "TakeNot"), cur, <<Call(1, cur)>>, 0)
        ELSE IF sf.some
             THEN Ok(OChar(sf.first), sf.rest, <<Call(1, cur)>>, 0)
             ELSE Err(from_parser_error(cur, "TakeNot"), cur, <<Call(1, cur)>>, 0)

\* TakeNot::fab
TakeNot(p, cur) ==
    LET checkpoint == cur
        r == fab(p.kids[1], cur)
        sf == TrySplitFront(checkpoint)
    IN  IF r.ok
        THEN Err(from_parser_error(checkpoint, "TakeNot"), checkpoint, <<Call(1, cur)>>, 0)
        ELSE IF sf.some
             THEN Ok(OChar(sf.first), sf.rest, <<Call(1, cur)>>, 0)
             ELSE Err(from_parser_error(checkpoint, "TakeNot"), checkpoint,
                      <<Call(1, cur)>>, 0)

\* Value::fab
Value(p, cur) ==
    LET r == fab(p.kids[1], cur)
    IN  IF r.ok
        THEN Ok(OInt(p.n), r.cur, <<Call(1, cur)>>, 0)
        ELSE Err(add_context(r.err, r.cur, "Map"), r.cur, <<Call(1, cur)>>, 0)

\* sequence_impl without `*input = startloc` on a child's failure
sequence_impl_NoReset(ps, i, startloc, cur, rvals, calls) ==
    IF i > Len(ps)
    THEN Ok(OTuple(rvals), cur, calls, 0)
    ELSE LET r == fab(ps[i], cur)
             calls2 == Append(calls, Call(i, cur))
         IN  IF r.ok
             THEN sequence_impl(ps, i + 1, startloc, r.cur, Append(rvals, r.out), calls2)
             ELSE Err(r.err, r.cur, calls2, 0)

\* sequence_impl: the i-th child of a tuple and the ones after it
sequence_impl(ps, i, startloc, cur, rvals, calls) ==
    IF i > Len(ps)
    THEN Ok(OTuple(rvals), cur, calls, 0)
    ELSE LET r == fab(ps[i], cur)
             calls2 == Append(calls, Call(i, cur))
         IN  IF r.ok
             THEN sequence_impl(ps, i + 1, startloc, r.cur, Append(rvals, r.out), calls2)
             ELSE Err(r.err, startloc, calls2, 0)

\* the progress selection of alt and permutation: the new (maxloc, maxlocerr)
select_err(maxloc, maxlocerr, err) ==
    LET l == get_loc(err)
    IN  IF l.some
        THEN IF ~maxloc.some \/ (maxloc.some /\ l.val >= maxloc.val)
             THEN [maxloc |-> l, maxlocerr |-> [some |-> TRUE, val |-> err]]
             ELSE [maxloc |-> maxloc, maxlocerr |-> maxlocerr]
        ELSE [maxloc |-> maxloc, maxlocerr |-> [some |-> TRUE, val |-> err]]

NoLoc == [some |-> FALSE, val |-> 0]
NoneErr == [some |-> FALSE, val |-> NoErr]

\* alt_impl without `*input = startloc` after a failed branch
alt_impl_NoReset(ps, i, startloc, cur, maxloc, maxlocerr, calls) ==
    IF i > Len(ps)
    THEN Err(maxlocerr.val, cur, calls, 0)
    ELSE LET r == fab(ps[i], cur)
             calls2 == Append(calls, Call(i, cur))
             sel == select_err(maxloc, maxlocerr, r.err)
         IN  IF r.ok
             THEN Ok(r.out, r.cur, calls2, 0)
             ELSE alt_impl(ps, i + 1, startloc, r.cur, sel.maxloc, sel.maxlocerr, calls2)

\* alt_impl: the i-th branch of alt and the ones after it
alt_impl(ps, i, startloc, cur, maxloc, maxlocerr, calls) ==
    IF i > Len(ps)
    THEN Err(maxlocerr.val, cur, calls, 0)
    ELSE LET r == fab(ps[i], cur)
             calls2 == Append(calls, Call(i, cur))
             sel == select_err(maxloc, maxlocerr, r.err)
         IN  IF r.ok
             THEN Ok(r.out, r.cur, calls2, 0)
             ELSE alt_impl(ps, i + 1, startloc, startloc, sel.maxloc, sel.maxlocerr, calls2)

\* permutation_impl returning the outputs in the reverse of the declared order
permutation_scan_Reversed(ps, i, outer_startloc, startloc, cur, rvals, done, best, calls) ==
    IF i > Len(ps)
    THEN IF done
         THEN Ok(OTuple([j \in 1..Len(ps) |-> rvals[Len(ps) + 1 - j].v]), cur, calls, 0)
         ELSE Err(best.maxlocerr.val, outer_startloc, calls, 0)
    ELSE IF rvals[i] # ONone
         THEN permutation_scan(ps, i + 1, outer_startloc, startloc, cur, rvals, done,
                               best, calls)
         ELSE LET r == fab(ps[i], cur)
                  calls2 == Append(calls, Call(i, cur))
              IN  IF r.ok
                  THEN permutation_scan(ps, 1, outer_startloc, r.cur, r.cur,
                                        [rvals EXCEPT ![i] = OSome(r.out)], TRUE,
                                        [maxloc |-> NoLoc, maxlocerr |-> NoneErr], calls2)
                  ELSE permutation_scan(ps, i + 1, outer_startloc, startloc, startloc,
                                        rvals, FALSE,
                                        select_err(best.maxloc, best.maxlocerr, r.err),
                                        calls2)

\* permutation_impl that goes on with the next parser after a success
permutation_scan_NoRestart(ps, i, outer_startloc, startloc, cur, rvals, done, best, calls) ==
    IF i > Len(ps)
    THEN IF done
         THEN Ok(OTuple([j \in 1..Len(ps) |-> rvals[j].v]), cur, calls, 0)
         ELSE Err(best.maxlocerr.val, outer_startloc, calls, 0)
    ELSE IF rvals[i] # ONone
         THEN permutation_scan(ps, i + 1, outer_startloc, startloc, cur, rvals, done,
                               best, calls)
         ELSE LET r == fab(ps[i], cur)
                  calls2 == Append(calls, Call(i, cur))
              IN  IF r.ok
                  THEN permutation_scan(ps, i + 1, outer_startloc, r.cur, r.cur,
                                        [rvals EXCEPT ![i] = OSome(r.out)],
                                        \A j \in 1..Len(ps) : j = i \/ rvals[j] # ONone,
                                        [maxloc |-> NoLoc, maxlocerr |-> NoneErr], calls2)
                  ELSE permutation_scan(ps, i + 1, outer_startloc, startloc, startloc,
                                        rvals, FALSE,
                                        select_err(best.maxloc, best.maxlocerr, r.err),
                                        calls2)

\* permutation_impl: one pass of the loop from parser i on.  rvals[j] is
\* parser j's Option<output>; a success restarts the loop at the new cursor.
permutation_scan(ps, i, outer_startloc, startloc, cur, rvals, done, best, calls) ==
    IF i > Len(ps)
    THEN IF done
         THEN Ok(OTuple([j \in 1..Len(ps) |-> rvals[j].v]), cur, calls, 0)
         ELSE Err(best.maxlocerr.val, outer_startloc, calls, 0)
    ELSE IF rvals[i] # ONone
         THEN permutation_scan(ps, i + 1, outer_startloc, startloc, cur, rvals, done,
                               best, calls)
         ELSE LET r == fab(ps[i], cur)
                  calls2 == Append(calls, Call(i, cur))
              IN  IF r.ok
                  THEN permutation_scan(ps, 1, outer_startloc, r.cur, r.cur,
                                        [rvals EXCEPT ![i] = OSome(r.out)], TRUE,
                                        [maxloc |-> NoLoc, maxlocerr |-> NoneErr], calls2)
                  ELSE permutation_scan(ps, i + 1, outer_startloc, startloc, startloc,
                                        rvals, FALSE,
                                        select_err(best.maxloc, best.maxlocerr, r.err),
                                        calls2)

-----------------------------------------------------------------------------
(* Repeat and its reducers: repeat.rs *)

\* an abort of the process (panic!, a failed expect)
Panicked == [stack |-> <<>>, cause |-> "panic"]

\* a base accumulator that keeps what the call before folded into it
BaseAcc_Leftover(f) ==
    IF f = "slice"
    THEN OUnit
    ELSE IF pc = "done" /\ last.parser.t = "Repeat" /\ last.res.ok /\ last.res.out.k = "vec"
         THEN last.res.out
         ELSE OVec(<<>>)

\* the base accumulator a run starts from: `self.reducer.acc.clone()`
BaseAcc(f) == IF f = "slice" THEN OUnit ELSE OVec(<<>>)

\* the user's fold functions reject the two-byte item
Rejects(val) == val.k = "item" /\ val.v = "L"

\* reducers that accept every value
try_reduce_NeverFails(f, acc, val) ==
    [ok |-> TRUE, cause |-> NoCause,
     acc |-> IF f = "slice" THEN acc ELSE OVec(Append(acc.v, val))]

\* TryReducer::try_reduce of the reducer f: the accumulator after it and,
\* when it fails, the error it fails with
try_reduce(f, acc, val) ==
    CASE f = "vec" -> [ok |-> TRUE, cause |-> NoCause, acc |-> OVec(Append(acc.v, val))]
      [] f = "slice" -> [ok |-> TRUE, cause |-> NoCause, acc |-> acc]
      [] f = "bool" ->
            IF Rejects(val)
            THEN [ok |-> FALSE, cause |-> "TryReducerFailed", acc |-> acc]
            ELSE [ok |-> TRUE, cause |-> NoCause, acc |-> OVec(Append(acc.v, val))]
      [] f = "option" ->
            IF Rejects(val)
            THEN [ok |-> FALSE, cause |-> "TryReducerFailed", acc |-> acc]
            ELSE [ok |-> TRUE, cause |-> NoCause, acc |-> OVec(Append(acc.v, val))]
      [] OTHER ->
            IF Rejects(val)
            THEN [ok |-> FALSE, cause |-> "TestError", acc |-> acc]
            ELSE [ok |-> TRUE, cause |-> NoCause, acc |-> OVec(Append(acc.v, val))]

\* finalize whose input slice has the size of what remains
finalize_SizeOfRest(f, acc, orig_input, new_input, calls, fcalls) ==
    IF f = "slice"
    THEN LET size == SeqLen(new_input)
             sp == TrySplitAt(orig_input, size)
         IN  IF sp.some
             THEN Ok(OSlice(View(sp.front)), new_input, calls, fcalls)
             ELSE Err(Panicked, new_input, calls, fcalls)
    ELSE Ok(acc, new_input, calls, fcalls)

\* TryReducer::finalize
finalize(f, acc, orig_input, new_input, calls, fcalls) ==
    IF f = "slice"
    THEN LET size == SeqLen(orig_input) - SeqLen(new_input)
             sp == TrySplitAt(orig_input, size)
         IN  IF sp.some
             THEN Ok(OSlice(View(sp.front)), new_input, calls, fcalls)
             ELSE Err(Panicked, new_input, calls, fcalls)
    ELSE Ok(acc, new_input, calls, fcalls)

\* a range that is never taken for empty
bounds_is_empty_Never(p) == FALSE
\* Range<usize>::is_empty and contains
bounds_is_empty(p) == ~(p.n < p.m)
\* contains without the test of the lower bound
bounds_contains_NoLower(p, x) == x < p.m
bounds_contains(p, x) == p.n <= x /\ x < p.m

\* the loop of Repeat::fab without `*input = orig_input` on zero progress
repeat_loop_NoReset(p, orig_input, cur, repetitions, last_location, res, calls, fcalls) ==
    IF repetitions = p.m - 1
    THEN finalize(p.f, res, orig_input, cur, calls, fcalls)
    ELSE LET loc_before_iteration == cur
             r == fab(p.kids[1], cur)
             calls2 == Append(calls, Call(1, cur))
             red == try_reduce(p.f, res, r.out)
         IN  IF r.ok
             THEN IF loc(r.cur) = loc(last_location)
                  THEN Err(add_context(from_parser_error(loc_before_iteration, "RepeatIter"),
                                       orig_input, "Repeat"),
                           r.cur, calls2, fcalls)
                  ELSE IF ~red.ok
                       THEN Err(add_context(from_external_error(loc_before_iteration,
                                                "RepeatIter", red.cause),
                                            orig_input, "Repeat"),
                                orig_input, calls2, fcalls + 1)
                       ELSE repeat_loop(p, orig_input, r.cur, repetitions + 1, r.cur,
                                        red.acc, calls2, fcalls + 1)
             ELSE IF bounds_contains(p, repetitions)
                  THEN finalize(p.f, res, orig_input, r.cur, calls2, fcalls)
                  ELSE Err(from_parser_error(orig_input, "Repeat"), orig_input, calls2, fcalls)

\* the loop of Repeat::fab with the cap test `repetitions == self.bounds.end`
repeat_loop_CapAtEnd(p, orig_input, cur, repetitions, last_location, res, calls, fcalls) ==
    IF repetitions = p.m
    THEN finalize(p.f, res, orig_input, cur, calls, fcalls)
    ELSE LET loc_before_iteration == cur
             r == fab(p.kids[1], cur)
             calls2 == Append(calls, Call(1, cur))
             red == try_reduce(p.f, res, r.out)
         IN  IF r.ok
             THEN IF loc(r.cur) = loc(last_location)
                  THEN Err(add_context(from_parser_error(loc_before_iteration, "RepeatIter"),
                                       orig_input, "Repeat"),
                           orig_input, calls2, fcalls)
                  ELSE IF ~red.ok
                       THEN Err(add_context(from_external_error(loc_before_iteration,
                                                "RepeatIter", red.cause),
                                            orig_input, "Repeat"),
                                orig_input, calls2, fcalls + 1)
                       ELSE repeat_loop(p, orig_input, r.cur, repetitions + 1, r.cur,
                                        red.acc, calls2, fcalls + 1)
             ELSE IF bounds_contains(p, repetitions)
                  THEN finalize(p.f, res, orig_input, r.cur, calls2, fcalls)
                  ELSE Err(from_parser_error(orig_input, "Repeat"), orig_input, calls2, fcalls)

\* the loop of Repeat::fab with the rejected iteration's end as the location
\* of the reducer's error
repeat_loop_IterEnd(p, orig_input, cur, repetitions, last_location, res, calls, fcalls) ==
    IF repetitions = p.m - 1
    THEN finalize(p.f, res, orig_input, cur, calls, fcalls)
    ELSE LET loc_before_iteration == cur
             r == fab(p.kids[1], cur)
             calls2 == Append(calls, Call(1, cur))
             red == try_reduce(p.f, res, r.out)
         IN  IF r.ok
             THEN IF loc(r.cur) = loc(last_location)
                  THEN Err(add_context(from_parser_error(loc_before_iteration, "RepeatIter"),
                                       orig_input, "Repeat"),
                           orig_input, calls2, fcalls)
                  ELSE IF ~red.ok
                       THEN Err(add_context(from_external_error(r.cur,
                                                "RepeatIter", red.cause),
                                            orig_input, "Repeat"),
                                orig_input, calls2, fcalls + 1)
                       ELSE repeat_loop(p, orig_input, r.cur, repetitions + 1, r.cur,
                                        red.acc, calls2, fcalls + 1)
             ELSE IF bounds_contains(p, repetitions)
                  THEN finalize(p.f, res, orig_input, r.cur, calls2, fcalls)
                  ELSE Err(from_parser_error(orig_input, "Repeat"), orig_input, calls2, fcalls)

\* the loop of Repeat::fab
repeat_loop(p, orig_input, cur, repetitions, last_location, res, calls, fcalls) ==
    IF repetitions = p.m - 1
    THEN finalize(p.f, res, orig_input, cur, calls, fcalls)
    ELSE LET loc_before_iteration == cur
             r == fab(p.kids[1], cur)
             calls2 == Append(calls, Call(1, cur))
             red == try_reduce(p.f, res, r.out)
         IN  IF r.ok
             THEN IF loc(r.cur) = loc(last_location)
                  THEN Err(add_context(from_parser_error(loc_before_iteration, "RepeatIter"),
                                       orig_input, "Repeat"),
                           orig_input, calls2, fcalls)
                  ELSE IF ~red.ok
                       THEN Err(add_context(from_external_error(loc_before_iteration,
                                                "RepeatIter", red.cause),
                                            orig_input, "Repeat"),
                                orig_input, calls2, fcalls + 1)
                       ELSE repeat_loop(p, orig_input, r.cur, repetitions + 1, r.cur,
                                        red.acc, calls2, fcalls + 1)
             ELSE IF bounds_contains(p, repetitions)
                  THEN finalize(p.f, res, orig_input, r.cur, calls2, fcalls)
                  ELSE Err(from_parser_error(orig_input, "Repeat"), orig_input, calls2, fcalls)

\* Repeat::fab
RepeatFab(p, cur) ==
    IF bounds_is_empty(p)
    THEN Err(from_parser_error(cur, "Repeat"), cur, <<>>, 0)
    ELSE repeat_loop(p, cur, cur, 0, cur, BaseAcc(p.f), <<>>, 0)

\* alt's fab
AltFab(p, cur) == alt_impl(p.kids, 1, cur, cur, NoLoc, NoneErr, <<>>)

\* permutation's fab
PermutationFab(p, cur) ==
    permutation_scan(p.kids, 1, cur, cur, cur, [j \in 1..Len(p.kids) |-> ONone], TRUE,
                     [maxloc |-> NoLoc, maxlocerr |-> NoneErr], <<>>)

\* a tuple's fab
TupleFab(p, cur) == sequence_impl(p.kids, 1, cur, cur, <<>>, <<>>)

\* Parser::fab: the call goes to the implementation of the parser's type
fab(p, cur) ==
    CASE p.t = "Item" -> ItemParser(p, cur)
      [] p.t = "FnBool" -> FnBoolParser(p, cur)
      [] p.t = "FnOption" -> FnOptionParser(p, cur)
      [] p.t = "FnResult" -> FnResultParser(p, cur)
      [] p.t = "Range" -> RangeParser(p, cur)
      [] p.t = "Take" -> TakeParser(p, cur)
      [] p.t = "Function" -> ParserFunction(p, cur)
      [] p.t = "Custom" -> UserParser(p, cur, 0)
      [] p.t = "Map" -> ParserMap(p, cur)
      [] p.t = "Value" -> Value(p, cur)
      [] p.t = "TryMapOption" -> ParserTryMapOption(p, cur)
      [] p.t = "TryMapResult" -> ParserTryMapResult(p, cur)
      [] p.t = "Opt" -> Opt(p, cur)
      [] p.t = "TakeNot" -> TakeNot(p, cur)
      [] p.t = "Tuple" -> TupleFab(p, cur)
      [] p.t = "Alt" -> AltFab(p, cur)
      [] p.t = "Permutation" -> PermutationFab(p, cur)
      [] OTHER -> RepeatFab(p, cur)

-----------------------------------------------------------------------------
(* The parsers the user builds *)

Tags == {Item(x) : x \in Items}
            \cup {FnBool("is_ascii_digit"), FnOption("to_digit"), FnResult("to_digit"),
                  CharRange("1", "L")}

Takes == {take(n) : n \in 0..MaxTake}

Functions == {Function(0, "a"), Function(1, "1")}

Customs == {Custom(0, "a"), Custom(1, "1")}

\* parsers built from the library alone that serve as children
Leaves == {Item("a"), FnBool("is_ascii_digit"), FnResult("to_digit"), take(2),
           Function(1, "1")}

Composites == {opt(Item("L")), Tuple(<<Item("a"), FnBool("is_ascii_digit")>>),
               fab_repeat(Item("a")), alt(<<Item("a"), Item("L")>>),
               fab_map(Function(1, "1"), "f"), take_not(Item("a"))}

Children == Leaves \cup Composites \cup {Custom(1, "1")}

\* children of value and try_map
MapChildren == Leaves \cup {Custom(1, "1")}

\* children of tuples, alt and permutation
BranchChildren == {Item("a"), FnBool("is_ascii_digit"), FnResult("to_digit"),
                   Custom(1, "1"), opt(Item("L")),
                   Tuple(<<Item("a"), FnBool("is_ascii_digit")>>)}

\* three parsers no two of which succeed at the same cursor
TripleChildren == {Item("a"), FnBool("is_ascii_digit"), Item("L")}

Branches == {<<a>> : a \in BranchChildren}
                \cup {<<a, b>> : a \in BranchChildren, b \in BranchChildren}
                \cup {t \in [1..3 -> TripleChildren] : \A i, j \in 1..3 : t[i] = t[j] => i = j}

RepeatChildren == {Item("a"), take(1), opt(Item("a")), Function(1, "1"),
                   Tuple(<<Item("a"), FnBool("is_ascii_digit")>>)}

RepeatBounds == {<<0, UsizeMax>>, <<1, UsizeMax>>, <<2, UsizeMax>>, <<0, 2>>, <<0, 3>>,
                 <<1, 1>>}

\* the ranges bound is called with: a..b, a..=b, ..b, a.., .. and ranges with
\* an excluded start, at the ends of usize and next to them
RangeForms ==
    {<<sk, s, ek, e>> : sk \in {"Included", "Excluded"}, s \in {0, 1, UsizeMax},
                        ek \in {"Included", "Excluded"}, e \in {0, 1, UsizeMax}}
        \cup {<<"Unbounded", 0, ek, e>> : ek \in {"Included", "Excluded"}, e \in {0, 1, UsizeMax}}
        \cup {<<sk, s, "Unbounded", 0>> : sk \in {"Included", "Excluded"}, s \in {0, 1, UsizeMax}}
        \cup {<<"Unbounded", 0, "Unbounded", 0>>}

\* the reducers, each with the bounds it is used with
Reducers == {<<b, "vec">> : b \in RepeatBounds}
                \cup {<<b, f>> : b \in {<<0, UsizeMax>>, <<1, UsizeMax>>}, f \in {"slice", "bool"}}

TryFns == {"to_digit", "reject"}

-----------------------------------------------------------------------------
(* The machine: the user's calls of fab on the cursor *)

Inputs == UNION {[1..n -> Items] : n \in 0..MaxLen}

ErrorTypes == {"FabError", "NoContextFabError", "UserError"}

NoCall == [res |-> Ok(OUnit, [ptr |-> 0, len |-> 0], <<>>, 0),
           parser |-> Item("a"), entry |-> [ptr |-> 0, len |-> 0]]

Init ==
    /\ input \in Inputs
    /\ seqkind \in {"str", "slice"}
    /\ etype \in ErrorTypes
    /\ seqkind = "slice" => etype = "FabError"
    /\ cursor = WholeInput
    /\ pc = "ready"
    /\ last = NoCall
    /\ trace_call = <<>>
    /\ stdout = <<>>

\* `p.fab(&mut cursor)`
Run(p) ==
    /\ pc = "ready"
    /\ LET r == fab(p, cursor)
       IN  /\ last' = [res |-> r, parser |-> p, entry |-> cursor]
           /\ cursor' = r.cur
    /\ pc' = "done"
    /\ UNCHANGED <<input, seqkind, etype, trace_call, stdout>>

RunTag == \E p \in Tags : Run(p)
RunTake == \E p \in Takes : Run(p)
RunFunction == \E p \in Functions : Run(p)
RunCustom == \E p \in Customs : Run(p)
RunMap == \E p \in Children : Run(fab_map(p, "f"))
RunValue == \E p \in MapChildren : Run(fab_value(p, 5))
RunTryMapOption == \E p \in MapChildren, f \in TryFns : Run(fab_try_map_option(p, f))
RunTryMapResult == \E p \in MapChildren, f \in TryFns : Run(fab_try_map_result(p, f))
RunOpt == \E p \in Children : Run(opt(p))
RunTakeNot == \E p \in Children : Run(take_not(p))
RunTuple == \E ps \in Branches : Run(Tuple(ps))
RunAlt == \E ps \in Branches : Run(alt(ps))
RunPermutation == \E ps \in Branches : Run(permutation(ps))
\* `p.fab_repeat()`, then the methods that change its bounds and its reducer
Customized(r, b, f) ==
    LET r1 == IF b[1] = 0 THEN r ELSE min(r, b[1])
        r2 == IF b[2] = UsizeMax THEN r1 ELSE max(r1, b[2])
    IN  CASE f = "vec" -> r2
          [] f = "slice" -> as_input_slice(r2)
          [] OTHER -> reduce(r2, f)

RunRepeat ==
    \E p \in RepeatChildren, r \in Reducers :
        Run(Customized(fab_repeat(p), r[1], r[2]))

\* `'a'.fab_repeat().bound(b).fab(&mut cursor)`; the program aborts when the
\* builder panics
RunBound ==
    \E b \in RangeForms :
        IF bound(fab_repeat(Item("a")), b).t = "panic"
        THEN /\ pc = "ready"
             /\ pc' = "aborted"
             /\ UNCHANGED <<input, seqkind, etype, cursor, last, trace_call, stdout>>
        ELSE Run(bound(fab_repeat(Item("a")), b))

\* the user goes on parsing where the call left the cursor
Continue ==
    /\ pc \in {"done", "printed", "again"}
    /\ pc' = "ready"
    /\ last' = NoCall
    /\ trace_call' = <<>>
    /\ stdout' = <<>>
    /\ UNCHANGED <<input, seqkind, etype, cursor>>

\* the user starts again on the whole input
Rewind ==
    /\ pc \in {"done", "printed", "again"}
    /\ pc' = "ready"
    /\ last' = NoCall
    /\ cursor' = WholeInput
    /\ trace_call' = <<>>
    /\ stdout' = <<>>
    /\ UNCHANGED <<input, seqkind, etype>>

Next ==
    \/ RunTag
    \/ RunTake
    \/ RunFunction
    \/ RunCustom
    \/ RunMap
    \/ RunValue
    \/ RunTryMapOption
    \/ RunTryMapResult
    \/ RunOpt
    \/ RunTakeNot
    \/ RunTuple
    \/ RunAlt
    \/ RunPermutation
    \/ RunRepeat
    \/ RunBound
    \/ Continue
    \/ Rewind

Spec == Init /\ [][Next]_vars

-----------------------------------------------------------------------------
(* FabError::print_trace: the stack trace of an error, printed line by line *)

DefaultWindow == 10      \* the window of print_trace

\* the windows print_trace_window is called with
Windows == {1}

\* get_from_start's loop: drop up to n items from the front
RECURSIVE get_from_start_loop(_, _)
get_from_start_loop(current_start, n) ==
    IF n = 0
    THEN current_start
    ELSE LET sp == TrySplitFront(current_start)
         IN  IF sp.some THEN get_from_start_loop(sp.rest, n - 1) ELSE current_start

\* get_from_start: <<TRUE, the first `window` items>>, <<FALSE, _>> when the
\* expect aborts
get_from_start(inp, window) ==
    LET current_start == get_from_start_loop(inp, window)
        index_diff == SeqLen(inp) - SeqLen(current_start)
        sp == TrySplitAt(inp, index_diff)
    IN  IF sp.some THEN <<TRUE, sp.front>> ELSE <<FALSE, inp>>

\* get_from_end's loop: move end_index back over up to `window` items
RECURSIVE get_from_end_loop(_, _, _, _)
get_from_end_loop(inp, window, end_index, count) ==
    IF count < window /\ end_index > 0
    THEN get_from_end_loop(inp, window, end_index - 1,
                           IF TrySplitAt(inp, end_index - 1).some
                           THEN count + 1 ELSE count)
    ELSE end_index

\* get_from_end that goes back by `window` units of len()
get_from_end_Bytes(inp, window) ==
    LET end_index == IF SeqLen(inp) > window THEN SeqLen(inp) - window ELSE 0
        sp == TrySplitAt(inp, end_index)
    IN  IF sp.some THEN <<TRUE, sp.rest>> ELSE <<FALSE, inp>>

\* get_from_end: <<TRUE, the last `window` items>>, <<FALSE, _>> when the
\* expect aborts
get_from_end(inp, window) ==
    LET end_index == get_from_end_loop(inp, window, SeqLen(inp), 0)
        sp == TrySplitAt(inp, end_index)
    IN  IF sp.some THEN <<TRUE, sp.rest>> ELSE <<FALSE, inp>>

\* get_surrounding_context: <<TRUE, before, after>>, <<FALSE, _, _>> when the
\* assert or an expect aborts.  `place - start` is a difference of addresses,
\* handed to try_split_at as an index
get_surrounding_context(inp, place, window) ==
    LET start == loc(inp)
    IN  IF place < start
        THEN <<FALSE, inp, inp>>
        ELSE LET index == place - start
                 sp == TrySplitAt(inp, index)
             IN  IF ~sp.some
                 THEN <<FALSE, inp, inp>>
                 ELSE LET before == get_from_end(sp.front, window)
                          after == get_from_start(sp.rest, window)
                      IN  IF before[1] /\ after[1]
                          THEN <<TRUE, before[2], after[2]>>
                          ELSE <<FALSE, inp, inp>>

\* the line `Location [{:?}]^[{:?}] from parser {:?}`, by its three arguments
LocationLine(before, after, parser_type) == <<"Location", before, after, parser_type>>

\* the line `From cause [{}]`, by its argument
CauseLine(cause) == <<"From cause", cause>>

\* the frames as the loop visits them, were it `self.stack.iter()`
frame_order_Forward(stack) == stack
\* the frames as the loop visits them: `self.stack.iter().rev()`
frame_order(stack) == [i \in 1..Len(stack) |-> stack[Len(stack) + 1 - i]]

\* the loop of print_trace_window over the frames still to print:
\* <<TRUE, lines>>, or <<FALSE, the lines printed before the abort>>
RECURSIVE print_frames(_, _, _, _)
print_frames(items, parser_input, window, out) ==
    IF items = <<>>
    THEN <<TRUE, out>>
    ELSE LET item == Head(items)
             ctx == get_surrounding_context(parser_input, item.location, window)
         IN  IF ~ctx[1]
             THEN <<FALSE, out>>
             ELSE print_frames(Tail(items), parser_input, window,
                               Append(out, LocationLine(View(ctx[2]), View(ctx[3]),
                                                        item.parser_type)))

\* FabError::print_trace_window
print_trace_window(err, parser_input, window) ==
    LET fr == print_frames(frame_order(err.stack), parser_input, window, <<>>)
    IN  IF fr[1] /\ err.cause # NoCause
        THEN <<TRUE, Append(fr[2], CauseLine(err.cause))>>
        ELSE fr

\* FabError::print_trace
print_trace(err, parser_input) == print_trace_window(err, parser_input, DefaultWindow)

\* the inputs a user hands to print_trace: the whole input, or the cursor
\* the failed call was made on
TraceInputs == {WholeInput, last.entry}

\* the call has returned a FabError, which the user holds
HoldsFabError ==
    /\ pc = "done"
    /\ etype = "FabError"
    /\ ~last.res.ok
    /\ last.res.err # Panicked

\* `err.print_trace(parser_input)`
PrintTrace ==
    /\ HoldsFabError
    /\ \E parser_input \in TraceInputs :
          /\ stdout' = print_trace(last.res.err, parser_input)[2]
          /\ pc' = IF print_trace(last.res.err, parser_input)[1] THEN "printed" ELSE "panicked"
          /\ trace_call' = <<parser_input, DefaultWindow>>
    /\ UNCHANGED <<input, seqkind, etype, cursor, last>>

\* `err.print_trace_window(parser_input, window)`
PrintTraceWindow ==
    /\ HoldsFabError
    /\ \E parser_input \in TraceInputs, window \in Windows :
          /\ stdout' = print_trace_window(last.res.err, parser_input, window)[2]
          /\ pc' = IF print_trace_window(last.res.err, parser_input, window)[1]
                   THEN "printed" ELSE "panicked"
          /\ trace_call' = <<parser_input, window>>
    /\ UNCHANGED <<input, seqkind, etype, cursor, last>>

\* children whose output is an item, for the reducers that can reject one
ReduceChildren == {take_not(Item("1")), Item("a")}

\* `p.fab_repeat().reduce(acc, f)` with a reducer that can fail
RunReduce ==
    \E p \in ReduceChildren, f \in {"bool", "option", "result"} :
        Run(reduce(fab_repeat(p), f))

\* the same parser value is run once more, on a copy of the cursor the
\* returned call was made on
RunAgain ==
    /\ pc = "done"
    /\ pc' = "again"
    /\ last' = [res |-> fab(last.parser, last.entry), parser |-> last.parser,
                entry |-> last.entry]
    /\ cursor' = fab(last.parser, last.entry).cur
    /\ UNCHANGED <<input, seqkind, etype, trace_call, stdout>>

TraceInit == Init /\ etype = "FabError"

TraceNext ==
    \/ RunMap
    \/ RunRepeat
    \/ RunReduce
    \/ PrintTrace
    \/ PrintTraceWindow
    \/ RunAgain
    \/ Continue
    \/ Rewind

TraceSpec == TraceInit /\ [][TraceNext]_vars

-----------------------------------------------------------------------------
(* Vocabulary of the properties *)

Done == pc = "done"

\* a parser built from the library's primitives and combinators alone
RECURSIVE IsLibrary(_)
IsLibrary(p) == p.t # "Custom" /\ \A i \in 1..Len(p.kids) : IsLibrary(p.kids[i])

\* the address just after a cursor's last item
EndOf(cur) == cur.ptr + cur.len * (IF seqkind = "str" THEN 1 ELSE ElemSize)

\* the call returned an error (it did not abort)
Failed == Done /\ ~last.res.ok /\ last.res.err # Panicked

Succeeded == Done /\ last.res.ok

\* some direct child was started after the entry cursor: input had been consumed
ChildStartedLater == \E i \in 1..Len(last.res.calls) : last.res.calls[i].at # last.entry

-----------------------------------------------------------------------------
(* C1: failure is stationary.  Whenever a parser built from the library's   *)
(* primitives and combinators returns an error, the cursor after the call   *)
(* is the cursor at entry: same pointer, same length.                       *)

C1_FailureIsStationary ==
    (Failed /\ IsLibrary(last.parser)) => cursor = last.entry

\* a permutation or a repeat fails after its children had consumed input
C1_Witness ==
    /\ Failed
    /\ IsLibrary(last.parser)
    /\ last.parser.t \in {"Permutation", "Repeat"}
    /\ ChildStartedLater

(* C2: success is monotone.  Whenever such a parser succeeds, the cursor it *)
(* leaves is a suffix of the entry cursor: it starts at or after the entry  *)
(* cursor's start and ends where the entry cursor ends.                     *)

C2_SuccessIsMonotone ==
    (Succeeded /\ IsLibrary(last.parser)) =>
        /\ cursor.ptr >= last.entry.ptr
        /\ EndOf(cursor) = EndOf(last.entry)
        /\ cursor.len >= 0

\* take or take_not succeeds and moves the cursor over a two-byte item
C2_Witness ==
    /\ Succeeded
    /\ last.parser.t \in {"Take", "TakeNot"}
    /\ cursor.ptr > last.entry.ptr + 1
    /\ seqkind = "str"
    /\ Head(View(last.entry)) = "L"

-----------------------------------------------------------------------------
\* the only child of the parser that has just returned, run on its own from
\* the entry cursor
Child == fab(last.parser.kids[1], last.entry)

\* the frame a parser of the given type pushes at a cursor
Frame(cur, parser_type) == [parser_type |-> parser_type, location |-> cur.ptr]

(* C3: opt(p) never returns an error.  When p succeeds with v it returns    *)
(* Some(v) and leaves the cursor where p left it; when p fails it returns   *)
(* None and leaves the cursor at opt's entry, whatever p did to the cursor   *)
(* before it failed.                                                        *)

C3_OptTotalAndRestoring ==
    (Done /\ last.parser.t = "Opt") =>
        /\ last.res.ok
        /\ Child.ok => (last.res.out = OSome(Child.out) /\ cursor = Child.cur)
        /\ ~Child.ok => (last.res.out = ONone /\ cursor = last.entry)

(* C4 as stated: when p fails with e, map(p, f) and value(p, v) fail with    *)
(* exactly e, no frame added or removed; f is not called and the cursor is  *)
(* where p left it.  When p succeeds with m, map returns f(m) and value a    *)
(* copy of v, with the cursor where p left it.                              *)

C4_MapPassesErrorThrough ==
    (Done /\ last.parser.t \in {"Map", "Value"}) =>
        /\ ~Child.ok =>
              /\ ~last.res.ok
              /\ last.res.err = Child.err
              /\ last.res.fcalls = 0
              /\ cursor = Child.cur
        /\ Child.ok =>
              /\ last.res.ok
              /\ cursor = Child.cur
              /\ last.parser.t = "Map" => last.res.out = MapFn(last.parser.f, Child.out)
              /\ last.parser.t = "Value" => last.res.out = OInt(last.parser.n)

(* C4 amended: when p fails with e, map(p, f) and value(p, v) fail with e's  *)
(* frames and cause and, with the rich error type, one more frame of kind   *)
(* Map on top, located at the cursor p left; with the other error types the *)
(* error is exactly e.  The rest is as stated.                              *)

C4_MapAddsMapFrame ==
    (Done /\ last.parser.t \in {"Map", "Value"}) =>
        /\ ~Child.ok =>
              /\ ~last.res.ok
              /\ last.res.err.cause = Child.err.cause
              /\ etype = "FabError" =>
                    last.res.err.stack = Append(Child.err.stack, Frame(Child.cur, "Map"))
              /\ etype # "FabError" => last.res.err = Child.err
              /\ last.res.fcalls = 0
              /\ cursor = Child.cur
        /\ Child.ok =>
              /\ last.res.ok
              /\ cursor = Child.cur
              /\ last.parser.t = "Map" =>
                    (last.res.out = MapFn(last.parser.f, Child.out) /\ last.res.fcalls = 1)
              /\ last.parser.t = "Value" => last.res.out = OInt(last.parser.n)

\* a map over a child that failed on a cursor it had moved
C4_Witness ==
    /\ Failed
    /\ last.parser.t = "Map"
    /\ etype = "FabError"
    /\ cursor # last.entry
    /\ Len(last.res.err.stack) = 2

(* C5: when p succeeds but f rejects its output, try_map fails, the cursor  *)
(* is back at try_map's entry, and the error has a single frame of kind     *)
(* TryMap located at the entry cursor; it carries f's error as cause in the *)
(* Result form and no cause in the Option form.                             *)

C5_TryMapRejects ==
    (Done /\ last.parser.t \in {"TryMapOption", "TryMapResult"}
          /\ Child.ok /\ ~TryFn(last.parser.f, Child.out).ok) =>
        /\ ~last.res.ok
        /\ cursor = last.entry
        /\ etype = "FabError" =>
              /\ last.res.err.stack = <<Frame(last.entry, "TryMap")>>
              /\ last.parser.t = "TryMapResult" =>
                    last.res.err.cause = TryFn(last.parser.f, Child.out).cause
              /\ last.parser.t = "TryMapOption" => last.res.err.cause = NoCause

\* f rejects the output of a child that had advanced the cursor, at an entry
\* cursor that is not the start of the input
C5_Witness ==
    /\ Failed
    /\ last.parser.t = "TryMapResult"
    /\ etype = "FabError"
    /\ Child.ok
    /\ Child.cur # last.entry
    /\ last.entry # WholeInput
    /\ last.res.err.cause = "ParseIntError"

(* C6: take_not(p) fails with kind TakeNot, the cursor at entry, when p     *)
(* succeeds; when p fails and the input is not empty it returns the first   *)
(* item of the entry input and leaves the cursor one item after entry,      *)
(* whatever p did to the cursor; when p fails and the input is empty it     *)
(* fails with kind TakeNot and the cursor unchanged.                        *)

C6_TakeNot ==
    (Done /\ last.parser.t = "TakeNot") =>
        LET items == View(last.entry)
            fails == /\ ~last.res.ok
                     /\ cursor = last.entry
                     /\ etype # "NoContextFabError" =>
                            last.res.err.stack = <<Frame(last.entry, "TakeNot")>>
        IN  /\ Child.ok => fails
            /\ (~Child.ok /\ items = <<>>) => fails
            /\ (~Child.ok /\ items # <<>>) =>
                  /\ last.res.ok
                  /\ last.res.out = OChar(Head(items))
                  /\ cursor.ptr = last.entry.ptr + Width(Head(items))
                  /\ cursor.len = last.entry.len - Unit(Head(items))

\* take_not succeeds over a child that failed on a cursor it had moved
C6_Witness ==
    /\ Succeeded
    /\ last.parser.t = "TakeNot"
    /\ ~Child.ok
    /\ Child.cur # last.entry

-----------------------------------------------------------------------------
\* the c-th child call of the parser that has just returned, run again
ChildRun(c) == fab(last.parser.kids[last.res.calls[c].i], last.res.calls[c].at)

\* child i of the parser that has just returned, run from the entry cursor
ChildAtEntry(i) == fab(last.parser.kids[i], last.entry)

Max(S) == CHOOSE x \in S : \A y \in S : y <= x

(* C7: a tuple runs its children left to right, each from the cursor the    *)
(* one before left.  When child k is the first to fail, the children after  *)
(* it are not run, the cursor is back at the tuple's entry and the error is *)
(* child k's error, no frame added.  When all succeed the output is the     *)
(* tuple of their outputs in declared order.                                *)

C7_TupleSequence ==
    (Done /\ last.parser.t = "Tuple") =>
        LET ps == last.parser.kids
            calls == last.res.calls
            k == Len(calls)
        IN  /\ 1 <= k /\ k <= Len(ps)
            /\ \A i \in 1..k : calls[i].i = i
            /\ calls[1].at = last.entry
            /\ \A i \in 1..(k - 1) : ChildRun(i).ok /\ calls[i + 1].at = ChildRun(i).cur
            /\ ~ChildRun(k).ok =>
                  /\ ~last.res.ok
                  /\ cursor = last.entry
                  /\ last.res.err = ChildRun(k).err
            /\ ChildRun(k).ok =>
                  /\ k = Len(ps)
                  /\ last.res.ok
                  /\ last.res.out = OTuple([i \in 1..k |-> ChildRun(i).out])
                  /\ cursor = ChildRun(k).cur

\* the second of three children fails after the first consumed input
C7_Witness ==
    /\ Failed
    /\ last.parser.t = "Tuple"
    /\ Len(last.parser.kids) = 3
    /\ Len(last.res.calls) = 2
    /\ last.res.calls[2].at # last.entry
    /\ etype = "FabError"

(* C8: alt starts every branch at alt's entry cursor, runs no branch after  *)
(* the first that succeeds, and returns the output and the cursor of the    *)
(* lowest-index branch that succeeds when run from the entry cursor.        *)

C8_AltFirstSuccess ==
    (Done /\ last.parser.t = "Alt") =>
        LET ps == last.parser.kids
            calls == last.res.calls
            k == Len(calls)
            winners == {i \in 1..Len(ps) : ChildAtEntry(i).ok}
        IN  /\ 1 <= k /\ k <= Len(ps)
            /\ \A i \in 1..k : calls[i].i = i /\ calls[i].at = last.entry
            /\ winners # {} =>
                  LET j == CHOOSE i \in winners : \A i2 \in winners : i <= i2
                  IN  /\ last.res.ok
                      /\ k = j
                      /\ last.res.out = ChildAtEntry(j).out
                      /\ cursor = ChildAtEntry(j).cur
            /\ winners = {} => (~last.res.ok /\ k = Len(ps))

\* the second branch succeeds after the first failed on a cursor it had moved
C8_Witness ==
    /\ Succeeded
    /\ last.parser.t = "Alt"
    /\ Len(last.res.calls) = 2
    /\ ChildAtEntry(1).cur # last.entry
    /\ cursor # last.entry

(* C9: when every branch of alt fails and at least one branch error carries *)
(* a location, the error alt returns carries a location, and it is the      *)
(* largest location among the branch errors.                                *)

C9_AltFurthestProgress ==
    (Failed /\ last.parser.t = "Alt") =>
        LET ps == last.parser.kids
            located == {i \in 1..Len(ps) : get_loc(ChildAtEntry(i).err).some}
        IN  ((\A i \in 1..Len(ps) : ~ChildAtEntry(i).ok) /\ located # {}) =>
                /\ get_loc(last.res.err).some
                /\ get_loc(last.res.err).val =
                        Max({get_loc(ChildAtEntry(i).err).val : i \in located})

(* C10: over parsers no two of which succeed at the same cursor, every      *)
(* declared ordering of a permutation succeeds or fails alike and leaves    *)
(* the same cursor, and on success slot i of the output is the output of    *)
(* the i-th declared parser, whatever the order they matched in.            *)

\* every cursor into the input
Cursors == {[ptr |-> AddrOf(i), len |-> SumUnit(i, Len(input))] : i \in 0..Len(input)}

NonOverlapping(ps) ==
    \A c \in Cursors : Cardinality({i \in 1..Len(ps) : fab(ps[i], c).ok}) <= 1

Orderings(n) == {s \in [1..n -> 1..n] : \A i, j \in 1..n : s[i] = s[j] => i = j}

C10_PermutationOrderInvariant ==
    (Done /\ last.parser.t = "Permutation" /\ NonOverlapping(last.parser.kids)) =>
        LET ps == last.parser.kids
            n == Len(ps)
        IN  /\ \A s \in Orderings(n) :
                  LET r == fab(permutation([i \in 1..n |-> ps[s[i]]]), last.entry)
                  IN  /\ r.ok = last.res.ok
                      /\ r.cur = cursor
                      /\ r.ok => \A i \in 1..n : r.out.v[i] = last.res.out.v[s[i]]
            /\ last.res.ok =>
                  \A i \in 1..n :
                      \E c \in 1..Len(last.res.calls) :
                          /\ last.res.calls[c].i = i
                          /\ ChildRun(c).ok
                          /\ ChildRun(c).out = last.res.out.v[i]

\* three parsers succeed, and the first declared is not the first to match
C10_Witness ==
    /\ Succeeded
    /\ last.parser.t = "Permutation"
    /\ Len(last.parser.kids) = 3
    /\ NonOverlapping(last.parser.kids)
    /\ ~ChildAtEntry(1).ok
    /\ last.res.out.v[1] # last.res.out.v[2]

-----------------------------------------------------------------------------
\* the c-th child call of the parser that has just returned made no progress
ZeroProgress(c) == ChildRun(c).ok /\ loc(ChildRun(c).cur) = loc(last.res.calls[c].at)

(* C11: when the child of a repeat succeeds without advancing the cursor,   *)
(* in the first iteration or a later one, the repeat stops there and fails: *)
(* the innermost frame is of kind RepeatIter at that iteration's start, the *)
(* outer frame of kind Repeat at the repeat's entry, the cursor is back at  *)
(* the entry, and the reducer was called for the earlier outputs only.      *)

C11_RepeatZeroProgress ==
    (Done /\ last.parser.t = "Repeat") =>
        \A c \in 1..Len(last.res.calls) :
            ZeroProgress(c) =>
                /\ c = Len(last.res.calls)
                /\ ~last.res.ok
                /\ cursor = last.entry
                /\ last.res.fcalls = c - 1
                /\ etype = "FabError" =>
                      /\ last.res.err.stack = <<Frame(last.res.calls[c].at, "RepeatIter"),
                                                Frame(last.entry, "Repeat")>>
                      /\ last.res.err.cause = NoCause

\* the child consumes input in the first iteration and none in the second
C11_Witness ==
    /\ Failed
    /\ last.parser.t = "Repeat"
    /\ etype = "FabError"
    /\ Len(last.res.calls) = 2
    /\ ZeroProgress(2)
    /\ last.res.calls[2].at # last.entry

(* C12: when a repeat with bounds [lo, hi) succeeds, the number r of child  *)
(* outputs given to the reducer satisfies lo <= r < hi.  When r = hi - 1    *)
(* the child was run hi - 1 times and not again, and the cursor is where    *)
(* the last of these runs left it.                                          *)

-----------------------------------------------------------------------------
\* how many times in a row p matches from cur, each time advancing (at most k)
RECURSIVE Matches(_, _, _)
Matches(p, cur, k) ==
    IF k = 0
    THEN 0
    ELSE LET r == fab(p, cur)
         IN  IF r.ok /\ loc(r.cur) # loc(cur)
             THEN 1 + Matches(p, r.cur, k - 1)
             ELSE 0

\* the cursor after p matched k times in a row from cur
RECURSIVE AfterMatches(_, _, _)
AfterMatches(p, cur, k) ==
    IF k = 0 THEN cur ELSE AfterMatches(p, fab(p, cur).cur, k - 1)

(* C13 as the tests state it: p.fab_repeat().max(m) returns an error and    *)
(* leaves the cursor at entry when p matches m or more times in a row from  *)
(* the entry cursor; when p matches fewer than m times and then fails, it   *)
(* succeeds with all the matches and the cursor after them.                 *)

C13_RepeatMaxFails ==
    (Done /\ last.parser.t = "Repeat" /\ last.parser.f = "vec"
          /\ last.parser.n = 0 /\ last.parser.m < UsizeMax) =>
        LET child == last.parser.kids[1]
            m == last.parser.m
            k == Matches(child, last.entry, MaxLen + 1)
            end == AfterMatches(child, last.entry, k)
        IN  /\ k >= m => (~last.res.ok /\ cursor = last.entry)
            /\ (k < m /\ ~fab(child, end).ok) =>
                  /\ last.res.ok
                  /\ Len(last.res.out.v) = k
                  /\ cursor = end

(* C14: when the child fails after r successful iterations, repeat with      *)
(* bounds lo..hi fails if r < lo, with the single frame Repeat at its entry *)
(* and no cause (the child's error is dropped) and the cursor back at its   *)
(* entry; if lo <= r < hi it succeeds with the r outputs and the cursor     *)
(* where the failed iteration started. The children are the library's       *)
(* parsers, which leave the cursor where it was when they fail.             *)

C14_RepeatChildFails ==
    (Done /\ last.parser.t = "Repeat" /\ Len(last.res.calls) > 0
          /\ ~ChildRun(Len(last.res.calls)).ok) =>
        LET r == Len(last.res.calls) - 1
            lo == last.parser.n
            hi == last.parser.m
        IN  /\ r < lo =>
                  /\ ~last.res.ok
                  /\ cursor = last.entry
                  /\ etype = "FabError" =>
                        /\ last.res.err.stack = <<Frame(last.entry, "Repeat")>>
                        /\ last.res.err.cause = NoCause
            /\ (lo <= r /\ r < hi) =>
                  /\ last.res.ok
                  /\ cursor = last.res.calls[r + 1].at
                  /\ last.res.fcalls = r
                  /\ last.parser.f = "vec" =>
                        last.res.out = OVec([c \in 1..r |-> ChildRun(c).out])

C14_Witness ==
    /\ Failed /\ last.parser.t = "Repeat" /\ etype = "FabError"
    /\ last.parser.n = 2
    /\ Len(last.res.calls) = 2
    /\ ChildRun(1).ok /\ ~ChildRun(2).ok
    /\ ChildRun(2).err.stack # <<Frame(last.entry, "Repeat")>>

(* C15: p.fab_repeat() with nothing changed (bounds 0..usize::MAX, the Vec   *)
(* reducer), over a child that advanced in every successful iteration,      *)
(* never fails: it returns the child's outputs in the order they were       *)
(* consumed (the empty Vec when the first iteration fails) and leaves the   *)
(* cursor where the first failing iteration started.                        *)

C15_RepeatDefault ==
    (Done /\ last.parser.t = "Repeat"
          /\ last.parser = fab_repeat(last.parser.kids[1])
          /\ \A c \in 1..Len(last.res.calls) : ~ZeroProgress(c)) =>
        LET n == Len(last.res.calls)
        IN  /\ last.res.ok
            /\ n > 0
            /\ ~ChildRun(n).ok
            /\ \A c \in 1..(n - 1) : ChildRun(c).ok
            /\ last.res.out = OVec([c \in 1..(n - 1) |-> ChildRun(c).out])
            /\ cursor = last.res.calls[n].at

C15_Witness ==
    /\ Succeeded /\ last.parser.t = "Repeat"
    /\ last.parser = fab_repeat(last.parser.kids[1])
    /\ Len(last.res.calls) = 3
    /\ Len(last.res.out.v) = 2
    /\ last.res.out.v[1] # last.res.out.v[2]

\* Sequence::len of the sequence made of the items s
RECURSIVE ItemsLen(_)
ItemsLen(s) == IF s = <<>> THEN 0 ELSE Unit(Head(s)) + ItemsLen(Tail(s))

(* C16: when p.fab_repeat().as_input_slice() succeeds, its output is the    *)
(* part of the entry input between the entry cursor and the final cursor:   *)
(* its len() is len(entry) - len(final), and the output followed by the     *)
(* remaining input is the entry input; with no repetition matched it is the *)
(* empty slice.                                                             *)

C16_RepeatInputSlice ==
    (Succeeded /\ last.parser.t = "Repeat" /\ last.parser.f = "slice") =>
        /\ last.res.out.k = "slice"
        /\ ItemsLen(last.res.out.v) = SeqLen(last.entry) - SeqLen(cursor)
        /\ last.res.out.v \o View(cursor) = View(last.entry)
        /\ last.res.fcalls = 0 => last.res.out.v = <<>>

C16_Witness ==
    /\ Succeeded /\ last.parser.t = "Repeat" /\ last.parser.f = "slice"
    /\ Len(last.res.out.v) = 2
    /\ SeqLen(cursor) > 0

-----------------------------------------------------------------------------
(* Vocabulary of the trace *)

\* print_trace has returned, having printed every line
Printed == pc = "printed"

(* C18 as the code has it: the trace prints one Location line per frame, in *)
(* order from the outermost frame (the last one pushed by an enclosing      *)
(* combinator) to the innermost (the frame the error was created with), and *)
(* after them the From cause line exactly when the error has a cause.      *)
(* When the rendering aborts, what it has printed is the first lines of     *)
(* that trace, not all of its Location lines.                               *)

ReducerRejected(c) ==
    /\ last.parser.t = "Repeat"
    /\ last.parser.f \in {"bool", "option"}
    /\ c \in 1..Len(last.res.calls)
    /\ ChildRun(c).ok
    /\ ~ZeroProgress(c)
    /\ Rejects(ChildRun(c).out)

(* C17 as the code has it: when a bool- or Option-returning reducer rejects *)
(* the output of the iteration that started at offset k, repeat fails with  *)
(* the cursor back at its entry, and the FabError holds the frame           *)
(* RepeatIter at offset k, the frame Repeat at repeat's entry and the cause *)
(* TryReducerFailed; its trace, when it completes, is the Repeat line, the  *)
(* RepeatIter line and `From cause [TryReducerFailed]`.                     *)

-----------------------------------------------------------------------------
(* C19: take(n) succeeds exactly when at least n items remain (chars of     *)
(* text, elements of an array).  It then returns the first n items and      *)
(* moves the cursor past exactly those items (on text, by the sum of their  *)
(* UTF-8 lengths); take(0) succeeds on any input with the empty slice and   *)
(* does not move.  Otherwise it fails with the frame Tag at its entry and   *)
(* leaves the cursor where it was.                                          *)

C19_Take ==
    (Done /\ last.parser.t = "Take") =>
        LET n == last.parser.n
            items == View(last.entry)
        IN  /\ last.res.ok <=> Len(items) >= n
            /\ last.res.ok =>
                  /\ last.res.out = OSlice(SubSeq(items, 1, n))
                  /\ cursor = Advance(last.entry, n)
                  /\ View(cursor) = SubSeq(items, n + 1, Len(items))
                  /\ cursor.ptr - last.entry.ptr =
                        SumWidth(IndexOf(last.entry.ptr) + n) - SumWidth(IndexOf(last.entry.ptr))
                  /\ last.entry.len - cursor.len =
                        SumUnit(IndexOf(last.entry.ptr), IndexOf(last.entry.ptr) + n)
                  /\ n = 0 => cursor = last.entry
            /\ ~last.res.ok =>
                  /\ cursor = last.entry
                  /\ etype = "FabError" =>
                        /\ last.res.err.stack = <<Frame(last.entry, "Tag")>>
                        /\ last.res.err.cause = NoCause

\* take(2) on text takes a two-byte char and leaves input
C19_Witness ==
    /\ Succeeded /\ last.parser.t = "Take" /\ last.parser.n = 2
    /\ seqkind = "str"
    /\ "L" \in {last.res.out.v[1], last.res.out.v[2]}
    /\ last.entry.len - cursor.len = 3
    /\ cursor.len > 0

(* C20: a user function used as a parser.  When the function returns an     *)
(* error, the wrapper puts the cursor back where it was at entry, whatever  *)
(* the function had consumed, and returns the function's error as it is;    *)
(* when the function succeeds, the cursor stays where the function left it  *)
(* and the output is the function's.                                        *)

C20_FunctionParser ==
    (Done /\ last.parser.t = "Function") =>
        LET f == UserParser(last.parser, last.entry, 0)
        IN  /\ last.res.ok = f.ok
            /\ ~f.ok =>
                  /\ cursor = last.entry
                  /\ last.res.err = f.err
            /\ f.ok =>
                  /\ cursor = f.cur
                  /\ last.res.out = f.out

\* the function fails after it has advanced the cursor
C20_Witness ==
    /\ Failed /\ last.parser.t = "Function"
    /\ UserParser(last.parser, last.entry, 0).cur # last.entry
    /\ etype = "FabError"
    /\ get_loc(last.res.err).val # loc(last.entry)

-----------------------------------------------------------------------------
(* C21: bound turns every form of range into a half-open lo..hi.  An        *)
(* included end u gives hi = u + 1, except u = usize::MAX, which gives      *)
(* hi = usize::MAX and does not wrap to 0; an excluded end u gives hi = u;  *)
(* an excluded start l gives lo = l + 1, except l = usize::MAX, for which   *)
(* the builder panics; an included start l gives lo = l; a missing start    *)
(* gives lo = 0 and a missing end hi = usize::MAX.  No sum wraps around.    *)
(* (Stated where the user can build a parser, for every range they may      *)
(* hand to bound.)                                                          *)

C21_BoundNormalises ==
    pc = "ready" =>
    \A b \in RangeForms :
        LET q == bound(fab_repeat(Item("a")), b)
            lo == CASE b[1] = "Included" -> b[2]
                    [] b[1] = "Excluded" -> b[2] + 1
                    [] OTHER -> 0
            hi == CASE b[3] = "Included" -> IF b[4] = UsizeMax THEN UsizeMax ELSE b[4] + 1
                    [] b[3] = "Excluded" -> b[4]
                    [] OTHER -> UsizeMax
        IN  IF b[1] = "Excluded" /\ b[2] = UsizeMax
            THEN q.t = "panic"
            ELSE /\ q = Repeat(Item("a"), lo, hi, "vec")
                 /\ lo <= UsizeMax
                 /\ hi <= UsizeMax

\* `(Excluded(0), Included(usize::MAX))` has been used: two matches pass
C21_Witness ==
    /\ Succeeded
    /\ last.parser = bound(fab_repeat(Item("a")), <<"Excluded", 0, "Included", UsizeMax>>)
    /\ last.parser.n = 1
    /\ last.parser.m = UsizeMax
    /\ Len(last.res.out.v) = 2

(* C22: determinism.  Running the same parser value again from the cursor   *)
(* the call before was made on gives the same result (the same output or    *)
(* error, the same calls of its children) and leaves the same cursor.  A    *)
(* repeat starts each run from a fresh copy of its base accumulator, so     *)
(* nothing folded in the run before shows in the later result.              *)

-----------------------------------------------------------------------------
(* C23: when the reducer (returning bool, Option or Result) rejects the     *)
(* output of an iteration, repeat fails with the cursor back at its entry   *)
(* and an error of exactly two frames: first the frame RepeatIter at the    *)
(* start of the rejected iteration (not at its end, and at repeat's entry   *)
(* only for the first iteration), then the frame Repeat at repeat's entry;  *)
(* the cause is the reducer's error.                                        *)

-----------------------------------------------------------------------------
(* C24: when a scan of a permutation finds no remaining parser that         *)
(* succeeds, the permutation fails with the cursor back at its entry, also  *)
(* when parsers had succeeded in earlier scans, and the error is one of the *)
(* errors of that last scan, unchanged (no frame added): the one with the   *)
(* largest location among the failures of that scan.                        *)

C24_PermutationFailure ==
    (Failed /\ last.parser.t = "Permutation") =>
        LET succ == {c \in 1..Len(last.res.calls) : ChildRun(c).ok}
            scan == IF succ = {} THEN 1..Len(last.res.calls)
                    ELSE (Max(succ) + 1)..Len(last.res.calls)
            located == {c \in scan : get_loc(ChildRun(c).err).some}
        IN  /\ cursor = last.entry
            /\ \E c \in scan : last.res.err = ChildRun(c).err
            /\ located # {} =>
                  /\ get_loc(last.res.err).some
                  /\ get_loc(last.res.err).val =
                        Max({get_loc(ChildRun(c).err).val : c \in located})

-----------------------------------------------------------------------------
(* C25: a permutation of N parsers terminates.  It starts with the first    *)
(* declared parser at its entry; it never runs again a parser that has      *)
(* succeeded; after a success it goes on, from the cursor the success left, *)
(* with the first declared parser that has not succeeded yet; after a       *)
(* failure it goes on, from the cursor the failed attempt started at (the   *)
(* start of the scan), with the next declared parser that has not succeeded *)
(* yet; it makes at most N + 1 scans (one more than the successes, at most  *)
(* N), scan k running at most N + 1 - k parsers.                            *)

C25_PermutationTerminates ==
    (Done /\ last.parser.t = "Permutation") =>
        LET calls == last.res.calls
            N == Len(last.parser.kids)
            succ == {c \in 1..Len(calls) : ChildRun(c).ok}
            \* the parsers that have not succeeded in the calls 1..c
            open(c) == {j \in 1..N : \A d \in succ : d <= c => calls[d].i # j}
        IN  /\ Len(calls) >= 1
            /\ calls[1] = Call(1, last.entry)
            /\ \A c, d \in 1..Len(calls) :
                  (c < d /\ calls[c].i = calls[d].i) => c \notin succ
            /\ \A c \in 1..(Len(calls) - 1) :
                  IF c \in succ
                  THEN /\ open(c) # {}
                       /\ calls[c + 1] =
                            Call(CHOOSE j \in open(c) : \A k \in open(c) : j <= k,
                                 ChildRun(c).cur)
                  ELSE /\ calls[c + 1].at = calls[c].at
                       /\ calls[c + 1].i > calls[c].i
                       /\ calls[c + 1].i \in open(c)
                       /\ \A j \in open(c) : ~(calls[c].i < j /\ j < calls[c + 1].i)
            /\ Cardinality(succ) <= N
            /\ Cardinality(succ) + 1 <= N + 1
            /\ Len(calls) <= (N * (N + 1)) \div 2
            /\ last.res.ok <=> Cardinality(succ) = N

\* three parsers: the first declared fails in the first scan, is run again
\* after the success of another, and all three succeed in the end
C25_Witness ==
    /\ Succeeded
    /\ last.parser.t = "Permutation"
    /\ Len(last.parser.kids) = 3
    /\ ~ChildRun(1).ok
    /\ Len(last.res.calls) >= 5
    /\ \E c \in 2..Len(last.res.calls) : last.res.calls[c].i = 1 /\ ChildRun(c).ok

-----------------------------------------------------------------------------
(* C26: a repeat whose range lo..hi is empty (lo >= hi: after max(0), after *)
(* min(k) with k >= hi, after bound with such a range) fails at once: the   *)
(* child and the reducer are not run, the cursor is unchanged and the error *)
(* is the single frame Repeat at the entry.  So the loop, and with it the   *)
(* cap test against hi - 1, is reached only with hi >= 1.                   *)

C26_EmptyRangeFails ==
    (Done /\ last.parser.t = "Repeat") =>
        /\ last.parser.n >= last.parser.m =>
              /\ ~last.res.ok
              /\ cursor = last.entry
              /\ last.res.calls = <<>>
              /\ last.res.fcalls = 0
              /\ etype = "FabError" =>
                    /\ last.res.err.stack = <<Frame(last.entry, "Repeat")>>
                    /\ last.res.err.cause = NoCause
        /\ (last.res.ok \/ last.res.calls # <<>>) =>
              /\ last.parser.m >= 1
              /\ (last.parser.m - 1) % 2^UsizeBits = last.parser.m - 1

\* a repeat with the range 0..0 has failed on input its child matches
C26_Witness ==
    /\ Failed
    /\ last.parser.t = "Repeat"
    /\ last.parser.n = 0
    /\ last.parser.m = 0
    /\ etype = "FabError"
    /\ fab(last.parser.kids[1], cursor).ok

-----------------------------------------------------------------------------
(* C27: on text, the trace of an error renders every frame (its location is *)
(* on a scalar boundary of the input handed to it) without aborting, and    *)
(* the line of a frame located after k characters of an input of n          *)
(* characters shows, for the window w, the last min(w, k) characters before *)
(* the location and the first min(w, n - k) characters after it: whole      *)
(* characters, counted as characters also when one takes two bytes.         *)

C27_TextWindows ==
    (seqkind = "str" /\ pc \in {"printed", "panicked"}) =>
        LET w == trace_call[2]
            e == IndexOf(trace_call[1].ptr)
            frames == frame_order(last.res.err.stack)
        IN  /\ pc = "printed"
            /\ Len(stdout) >= Len(frames)
            /\ \A i \in 1..Len(frames) :
                  LET k == IndexOf(frames[i].location)
                      nb == IF w < k - e THEN w ELSE k - e
                      na == IF w < Len(input) - k THEN w ELSE Len(input) - k
                  IN  stdout[i] = LocationLine(SubSeq(input, k - nb + 1, k),
                                               SubSeq(input, k + 1, k + na),
                                               frames[i].parser_type)

\* a frame after a one-byte and a two-byte character, printed with window 1:
\* the two-byte character alone before the location, one character after it
C27_Witness ==
    /\ pc = "printed"
    /\ seqkind = "str"
    /\ trace_call = <<WholeInput, 1>>
    /\ Len(input) = 3
    /\ input[2] = "L"
    /\ \E i \in 1..Len(stdout) :
          /\ stdout[i][1] = "Location"
          /\ stdout[i][2] = <<"L">>
          /\ stdout[i][3] = <<input[3]>>

-----------------------------------------------------------------------------
(* C28: on an array whose elements take more than one byte, the trace of an *)
(* error renders every frame without aborting, and the line of a frame      *)
(* recorded at the cursor on element k is split at element k: what is shown *)
(* before the location ends with element k - 1 (nothing for the first       *)
(* element of the input handed to it) and what is shown after it begins     *)
(* with element k (nothing at the end of the array).                        *)

C28_ArrayWindows ==
    (seqkind = "slice" /\ pc \in {"printed", "panicked"}) =>
        LET e == IndexOf(trace_call[1].ptr)
            frames == frame_order(last.res.err.stack)
        IN  /\ pc = "printed"
            /\ Len(stdout) >= Len(frames)
            /\ \A i \in 1..Len(frames) :
                  LET k == IndexOf(frames[i].location)
                      before == stdout[i][2]
                      after == stdout[i][3]
                  IN  /\ stdout[i][1] = "Location"
                      /\ IF k > e
                         THEN before # <<>> /\ before[Len(before)] = input[k]
                         ELSE before = <<>>
                      /\ IF k < Len(input)
                         THEN after # <<>> /\ after[1] = input[k + 1]
                         ELSE after = <<>>

-----------------------------------------------------------------------------
(* C29: the stack of a FabError is never empty, and the location it reports *)
(* for the choice of the furthest error is that of its first frame, the one *)
(* it was created with.  A map, value or try_map whose child failed returns *)
(* the child's error with one frame appended and the reported location      *)
(* unchanged; a repeat appends its frame Repeat after the frame of the      *)
(* iteration, whose location stays the one reported.                        *)

C29_LocationIsFirstFrame ==
    (Failed /\ etype = "FabError") =>
        LET err == last.res.err
            n == Len(err.stack)
        IN  /\ n >= 1
            /\ get_loc(err) = [some |-> TRUE, val |-> err.stack[1].location]
            /\ ( /\ last.parser.t \in {"Map", "Value", "TryMapOption", "TryMapResult"}
                 /\ ~ChildAtEntry(1).ok ) =>
                    /\ n = Len(ChildAtEntry(1).err.stack) + 1
                    /\ SubSeq(err.stack, 1, n - 1) = ChildAtEntry(1).err.stack
                    /\ get_loc(err) = get_loc(ChildAtEntry(1).err)
            /\ (last.parser.t = "Repeat" /\ n = 2) =>
                    /\ err.stack[2] = Frame(last.entry, "Repeat")
                    /\ err.stack[1].parser_type = "RepeatIter"
                    /\ get_loc(err).val =
                          loc(last.res.calls[Len(last.res.calls)].at)

\* a map has added its frame to the error of a child that failed after the
\* entry: the reported location is the child's, not the map's
C29_Witness ==
    /\ Failed
    /\ etype = "FabError"
    /\ last.parser.t = "Map"
    /\ Len(last.res.err.stack) = 2
    /\ get_loc(last.res.err).val > loc(last.entry)
    /\ last.res.err.stack[2].location = loc(last.entry)

-----------------------------------------------------------------------------
(* The utility parsers of util.rs, called on the cursor *)

UtilItems == {"-", "1", ".", "a"}

UtilInputs == UNION {[1..n -> UtilItems] : n \in 0..MaxLen}

\* `char::is_ascii_digit.fab_repeat().min(1).as_input_slice()`
Digits == as_input_slice(min(fab_repeat(FnBool("is_ascii_digit")), 1))

\* num_signed_str: each `?` returns the error with the cursor as it is
num_signed_str(cur) ==
    LET orig_input == cur
        sign == fab(opt(Item("-")), cur)
        rest == fab(Digits, sign.cur)
    IN  IF ~sign.ok
        THEN Err(sign.err, sign.cur, <<>>, 0)
        ELSE IF ~rest.ok
             THEN Err(rest.err, rest.cur, <<>>, 0)
             ELSE Ok(OSlice(View(TrySplitAt(orig_input,
                                            SeqLen(orig_input) - SeqLen(rest.cur)).front)),
                     rest.cur, <<>>, 0)

\* float_str
float_str(cur) ==
    LET orig_input == cur
        sign == fab(opt(Item("-")), cur)
        whole_part == fab(Digits, sign.cur)
        decimal_part == fab(opt(Tuple(<<Item("."), Digits>>)), whole_part.cur)
    IN  IF ~sign.ok
        THEN Err(sign.err, sign.cur, <<>>, 0)
        ELSE IF ~whole_part.ok
             THEN Err(whole_part.err, whole_part.cur, <<>>, 0)
             ELSE IF ~decimal_part.ok
                  THEN Err(decimal_part.err, decimal_part.cur, <<>>, 0)
                  ELSE Ok(OSlice(View(TrySplitAt(orig_input,
                                      SeqLen(orig_input) - SeqLen(decimal_part.cur)).front)),
                          decimal_part.cur, <<>>, 0)

\* `num_signed_str(&mut cursor)`
RunNumSigned ==
    /\ pc = "ready"
    /\ last' = [res |-> num_signed_str(cursor),
                parser |-> Mk("num_signed_str", <<>>, 0, 0, "", ""), entry |-> cursor]
    /\ cursor' = num_signed_str(cursor).cur
    /\ pc' = "done"
    /\ UNCHANGED <<input, seqkind, etype, trace_call, stdout>>

\* `float_str(&mut cursor)`
RunFloat ==
    /\ pc = "ready"
    /\ last' = [res |-> float_str(cursor),
                parser |-> Mk("float_str", <<>>, 0, 0, "", ""), entry |-> cursor]
    /\ cursor' = float_str(cursor).cur
    /\ pc' = "done"
    /\ UNCHANGED <<input, seqkind, etype, trace_call, stdout>>

UtilInit ==
    /\ input \in UtilInputs
    /\ seqkind = "str"
    /\ etype \in ErrorTypes
    /\ cursor = WholeInput
    /\ pc = "ready"
    /\ last = NoCall
    /\ trace_call = <<>>
    /\ stdout = <<>>

UtilNext ==
    \/ RunNumSigned
    \/ RunFloat
    \/ Continue
    \/ Rewind

UtilSpec == UtilInit /\ [][UtilNext]_vars

(* C30: num_signed_str and float_str, called on a cursor, leave the cursor  *)
(* as it was at entry whenever they return an error, on every input, also   *)
(* when the optional '-' matched and no digit follows it.                   *)

C30_UtilFailureStationary ==
    (pc = "done" /\ last.parser.t \in {"num_signed_str", "float_str"} /\ ~last.res.ok) =>
        cursor = last.entry

====
